---- MODULE Spec2Model ----
(***************************************************************************)
(* A model of pypub/chapter.py: the image resolver (get_image_type,        *)
(* save_image, _replace_image), the Chapter entity, the chapter factories  *)
(* and the gist expander.                                                  *)
(*                                                                         *)
(* Strings are modelled as sequences: a chapter's markup is a sequence of  *)
(* markup tokens (text characters, line breaks, img/script/title           *)
(* elements), file names and gist labels are sequences of characters.      *)
(* Python's None is the string "None"; "none" in the exc field of `last`   *)
(* means that the call returned normally.                                  *)
(***************************************************************************)
EXTENDS Integers, Sequences, FiniteSets, TLC

VARIABLES
    chapter,      \* the Chapter object (NoChapter before construction)
    files,        \* the files of <ebook_folder>/images: records name, ext, data
    imagesDir,    \* TRUE iff <ebook_folder>/images exists
    nextName,     \* the next fresh uuid4 name
    disk,         \* the files written by Chapter.write: records name, data
    calls,        \* number of calls made so far (bounds the exploration)
    last          \* the last call: its operation, arguments and outcome

vars == <<chapter, files, imagesDir, nextName, disk, calls, last>>

(***************************************************************************)
(* Bounds of the model.                                                    *)
(***************************************************************************)
MaxNodes == 2      \* tokens in a chapter's markup
MaxCalls == 3      \* calls made on one chapter / one images directory
MaxRows  == 2      \* table rows of a gist fragment

None == "None"

(***************************************************************************)
(* Generic sequence helpers.                                               *)
(***************************************************************************)
RECURSIVE Flatten(_)
Flatten(ss) == IF ss = <<>> THEN <<>> ELSE Head(ss) \o Flatten(Tail(ss))

RECURSIVE SeqsUpTo(_, _)
SeqsUpTo(S, n) ==
    IF n = 0 THEN {<<>>}
    ELSE LET shorter == SeqsUpTo(S, n - 1)
         IN  shorter \cup {Append(s, x) : s \in {t \in shorter : Len(t) = n - 1}, x \in S}

(***************************************************************************)
(* Image references.  A reference is described by what the code looks at:  *)
(*   scheme  - it carries an http(s) scheme (urllib/requests can open it)  *)
(*   ending  - its trailing characters                                     *)
(*   local   - os.path.exists(reference)                                   *)
(*   fmt     - the binary format of the resource, as imghdr.what sees it   *)
(*             ("none": not a recognizable image)                          *)
(*   name/ext- for a rewritten reference images/<name>.<ext>, else 0/"none"*)
(***************************************************************************)
Ref(scheme, ending, local, fmt) ==
    [scheme |-> scheme, ending |-> ending, local |-> local, fmt |-> fmt,
     name |-> 0, ext |-> "none"]

NoSrc == Ref(FALSE, "none", FALSE, "none")

RemoteJpg     == Ref(TRUE,  "jpg",  FALSE, "jpeg")   \* http://host/a.jpg
RemotePng     == Ref(TRUE,  "none", FALSE, "png")    \* http://host/image?id=1
RemoteNoImage == Ref(TRUE,  "none", FALSE, "none")   \* http://host/page.html
RemoteGifPng  == Ref(TRUE,  ".gif.png", FALSE, "png")\* http://host/a.gif.png
LocalJpg      == Ref(FALSE, "jpg",  TRUE,  "jpeg")   \* /home/u/a.jpg
LocalPng      == Ref(FALSE, "png",  TRUE,  "png")    \* /home/u/a.png
RelativeJpg   == Ref(FALSE, "jpg",  FALSE, "jpeg")   \* pics/a.jpg, not on disk
RelativeOther == Ref(FALSE, "none", FALSE, "png")    \* pics/a, not on disk

ContentImageUrls == {RemoteJpg, RemotePng, RemoteNoImage, LocalJpg, LocalPng, RelativeOther}
ImageUrls == ContentImageUrls \cup {RemoteGifPng, RelativeJpg}

\* 'images' + '/' + image_name + '.' + image_extension, a relative reference
\* that is no file of the working directory
ImagePath(name, ext, fmt) ==
    [scheme |-> FALSE, ending |-> ext, local |-> FALSE, fmt |-> fmt,
     name |-> name, ext |-> ext]

\* urllib.parse.urljoin(base, url): the url itself when base is None or empty
\* or the url is absolute, else the url resolved against the base
urljoin(base, url) ==
    IF base = None \/ base = "" \/ url.scheme THEN url
    ELSE [url EXCEPT !.scheme = TRUE, !.local = FALSE]

(***************************************************************************)
(* get_image_type(url).  sniffOk: the fetch of urlretrieve succeeds.       *)
(* Result: [exc, type]; type None when the type cannot be determined.      *)
(***************************************************************************)
KnownEndings == {"jpg", "jpeg", ".gif.png"}

get_image_type(url, sniffOk) ==
    IF url.ending \in KnownEndings THEN [exc |-> "none", type |-> url.ending]
    ELSE IF ~url.scheme THEN [exc |-> "ValueError", type |-> None]  \* unknown url type
    ELSE IF ~sniffOk THEN [exc |-> "none", type |-> None]           \* IOError caught
    ELSE [exc |-> "none", type |-> IF url.fmt = "none" THEN None ELSE url.fmt]

(***************************************************************************)
(* The images directory: a set of files keyed by (name, ext).              *)
(***************************************************************************)
WriteFile(fs, name, ext, data) ==
    {f \in fs : ~(f.name = name /\ f.ext = ext)} \cup
    {[name |-> name, ext |-> ext, data |-> data]}

(***************************************************************************)
(* save_image(image_url, image_directory, image_name).                     *)
(* dirOk: image_directory exists; getOk: requests.get succeeds.            *)
(* Result: [exc, type, files].                                             *)
(***************************************************************************)
save_image(url, fs, dirOk, name, sniffOk, getOk) ==
    LET t == get_image_type(url, sniffOk) IN
    IF t.exc # "none" THEN [exc |-> t.exc, type |-> None, files |-> fs]
    ELSE IF t.type = None THEN [exc |-> "ImageErrorException", type |-> None, files |-> fs]
    ELSE IF url.local THEN
        \* shutil.copy(image_url, full_image_file_name)
        IF dirOk THEN [exc |-> "none", type |-> t.type,
                       files |-> WriteFile(fs, name, t.type, url.fmt)]
        ELSE [exc |-> "FileNotFoundError", type |-> None, files |-> fs]
    ELSE IF ~dirOk THEN
        \* open(full_image_file_name, 'wb') fails: IOError
        [exc |-> "ImageErrorException", type |-> None, files |-> fs]
    ELSE IF ~(url.scheme /\ getOk) THEN
        \* the file is open (created, truncated) when requests.get raises
        [exc |-> "ImageErrorException", type |-> None,
         files |-> WriteFile(fs, name, t.type, "empty")]
    ELSE [exc |-> "none", type |-> t.type,
          files |-> WriteFile(fs, name, t.type, url.fmt)]

(***************************************************************************)
(* Markup tokens.  The same records serve as the nodes of the parsed tree. *)
(***************************************************************************)
Tok(type, cp, closed, hasSrc, src) ==
    [type |-> type, cp |-> cp, closed |-> closed, hasSrc |-> hasSrc, src |-> src]

Text(cp)  == Tok("text", cp, TRUE, FALSE, NoSrc)
Br(closed) == Tok("br", 0, closed, FALSE, NoSrc)      \* <br> or <br/>
Img(src)  == Tok("img", 0, TRUE, TRUE, src)           \* <img src="..."/>
ImgNoSrc  == Tok("img", 0, TRUE, FALSE, NoSrc)        \* <img/>

TextChars == {233}                                     \* e-acute

ContentTokens ==
    {Text(c) : c \in TextChars} \cup {Br(TRUE), Br(FALSE), ImgNoSrc}
    \cup {Img(u) : u \in ContentImageUrls}

Contents == SeqsUpTo(ContentTokens, MaxNodes)

\* BeautifulSoup(content, 'html.parser'): the tree does not remember how a
\* void element was written
ParseTok(t) == IF t.type = "br" THEN Br(TRUE) ELSE t
Parse(content) == [i \in 1..Len(content) |-> ParseTok(content[i])]

\* str(tree): void elements are written self-closed
Serialize(tree) == [i \in 1..Len(tree) |-> IF tree[i].type = "br" THEN Br(TRUE) ELSE tree[i]]

\* s.replace('<br>', '<br/>')
ReplaceBr(s) == [i \in 1..Len(s) |-> IF s[i] = Br(FALSE) THEN Br(TRUE) ELSE s[i]]

(***************************************************************************)
(* _replace_image(image_url, image_tag, ebook_folder) with a fresh uuid4   *)
(* name.  Result: [exc, removed, src, files]; removed: the tag was         *)
(* decomposed; src: the tag's src after the call.                          *)
(***************************************************************************)
replace_image(url, oldSrc, fs, dirOk, name, sniffOk, getOk) ==
    IF ~dirOk THEN
        \* assert os.path.exists(image_full_path) -> ValueError
        [exc |-> "ValueError", removed |-> FALSE, src |-> oldSrc, files |-> fs]
    ELSE LET r == save_image(url, fs, dirOk, name, sniffOk, getOk) IN
         IF r.exc = "none" THEN
             [exc |-> "none", removed |-> FALSE,
              src |-> ImagePath(name, r.type, url.fmt), files |-> r.files]
         ELSE IF r.exc \in {"ImageErrorException", "TypeError"} THEN
             [exc |-> "none", removed |-> TRUE, src |-> oldSrc, files |-> r.files]
         ELSE [exc |-> r.exc, removed |-> FALSE, src |-> oldSrc, files |-> r.files]

\* Chapter._get_image_urls selects the img nodes that have a src
IsImageNode(n) == n.type = "img" /\ n.hasSrc

NumImages(tree) == Cardinality({i \in 1..Len(tree) : IsImageNode(tree[i])})

(***************************************************************************)
(* The loop of Chapter._replace_images_in_chapter over the tree's nodes.   *)
(* done: the nodes already visited and kept; rest: the nodes to visit;     *)
(* env: one fetch outcome [sniff, get] per image node to visit.            *)
(* Result: [exc, tree, files, next, failed].                               *)
(***************************************************************************)
RECURSIVE ReplaceLoop(_, _, _, _, _, _, _, _)
ReplaceLoop(done, rest, base, fs, dirOk, name, env, failed) ==
    IF rest = <<>> THEN
        [exc |-> "none", tree |-> done, files |-> fs, next |-> name, failed |-> failed]
    ELSE LET n == Head(rest) IN
         IF ~IsImageNode(n) THEN
             ReplaceLoop(Append(done, n), Tail(rest), base, fs, dirOk, name, env, failed)
         ELSE LET r == replace_image(urljoin(base, n.src), n.src, fs, dirOk, name,
                                     Head(env).sniff, Head(env).get) IN
              IF r.exc # "none" THEN
                  [exc |-> r.exc, tree |-> done \o rest, files |-> r.files,
                   next |-> name + 1, failed |-> failed]
              ELSE IF r.removed THEN
                  ReplaceLoop(done, Tail(rest), base, r.files, dirOk, name + 1,
                              Tail(env), failed + 1)
              ELSE ReplaceLoop(Append(done, [n EXCEPT !.src = r.src]), Tail(rest), base,
                               r.files, dirOk, name + 1, Tail(env), failed)

(***************************************************************************)
(* Chapter                                                                 *)
(***************************************************************************)
NoChapter == [live |-> FALSE, title |-> None, content |-> <<>>, tree |-> <<>>, url |-> None]

Titles == {"", "Title", None}
Urls   == {None, "http://example.com/page"}

\* Chapter._validate_input_types(content, title): the exception it raises
validate_input_types(content, title) ==
    IF title = None THEN "TypeError"
    ELSE IF title = "" THEN "ValueError"
    ELSE IF content = <<>> THEN "ValueError"
    ELSE "none"

\* Chapter.__init__(content, title, url): [exc, chapter]
Chapter_init(content, title, url) ==
    LET exc == validate_input_types(content, title) IN
    IF exc # "none" THEN [exc |-> exc, chapter |-> NoChapter]
    ELSE [exc |-> "none",
          chapter |-> [live |-> TRUE, title |-> title, content |-> content,
                       tree |-> Parse(content), url |-> url]]

NoCall == [op |-> "none", exc |-> "none", ret |-> None, arg |-> <<>>, failed |-> 0]

Call(op, exc, ret, arg, failed) ==
    [op |-> op, exc |-> exc, ret |-> ret, arg |-> arg, failed |-> failed]

Env == [sniff : BOOLEAN, get : BOOLEAN]

\* Chapter(content, title, url)
Construct ==
    /\ ~chapter.live
    /\ calls = 0
    /\ \E content \in Contents, title \in Titles, url \in Urls :
          LET r == Chapter_init(content, title, url) IN
          /\ chapter' = r.chapter
          /\ last' = Call("init", r.exc, None, <<content, title, url>>, 0)
    /\ calls' = calls + 1
    /\ UNCHANGED <<files, imagesDir, nextName, disk>>

\* Chapter._replace_images_in_chapter(ebook_folder)
ReplaceImagesInChapter ==
    /\ chapter.live
    /\ calls < MaxCalls
    /\ \E env \in [1..NumImages(chapter.tree) -> Env] :
          LET r == ReplaceLoop(<<>>, chapter.tree, chapter.url, files, imagesDir,
                               nextName, env, 0) IN
          /\ chapter' = IF r.exc = "none"
                        THEN [chapter EXCEPT !.tree = r.tree,
                                             !.content = ReplaceBr(Serialize(r.tree))]
                        ELSE [chapter EXCEPT !.tree = r.tree]
          /\ files' = r.files
          /\ nextName' = r.next
          /\ last' = Call("replace_images", r.exc, None, <<>>, r.failed)
    /\ calls' = calls + 1
    /\ UNCHANGED <<imagesDir, disk>>

\* a get_url that answers an empty placeholder when the url is missing
get_url_placeholder(c) ==
    IF c.url # None THEN [exc |-> "none", ret |-> c.url]
    ELSE [exc |-> "none", ret |-> ""]

\* Chapter.get_url()
get_url(c) == IF c.url # None THEN [exc |-> "none", ret |-> c.url]
              ELSE [exc |-> "NoUrlError", ret |-> None]

GetUrl ==
    /\ chapter.live
    /\ calls < MaxCalls
    /\ last' = Call("get_url", get_url(chapter).exc, get_url(chapter).ret, <<>>, 0)
    /\ calls' = calls + 1
    /\ UNCHANGED <<chapter, files, imagesDir, nextName, disk>>

(***************************************************************************)
(* Chapter.write(file_name).  The content string is the concatenation of   *)
(* its tokens' characters (code points); the file holds its UTF-8 bytes.   *)
(***************************************************************************)
\* the characters of an image reference, abbreviated: "h" for a scheme,
\* the digit of a rewritten name, "." and the first letter of the ending
UrlStr(u) ==
    (IF u.scheme THEN <<104>> ELSE <<>>) \o <<48 + u.name, 46>> \o
    (IF u.ending \in {"jpg", "jpeg"} THEN <<106>>
     ELSE IF u.ending = "png" THEN <<112>> ELSE <<>>)

TokStr(t) ==
    IF t.type = "text" THEN <<t.cp>>
    ELSE IF t.type = "br" THEN (IF t.closed THEN <<60, 98, 114, 47, 62>>   \* <br/>
                                ELSE <<60, 98, 114, 62>>)                  \* <br>
    ELSE IF t.hasSrc THEN <<60, 105, 109, 103, 32, 115, 114, 99, 61, 34>>  \* <img src="
                          \o UrlStr(t.src) \o <<34, 47, 62>>               \* "/>
    ELSE <<60, 105, 109, 103, 47, 62>>                                     \* <img/>

Str(content) == Flatten([i \in 1..Len(content) |-> TokStr(content[i])])

\* the UTF-8 bytes of one code point
Utf8(cp) ==
    IF cp < 128 THEN <<cp>>
    ELSE IF cp < 2048 THEN <<192 + (cp \div 64), 128 + (cp % 64)>>
    ELSE IF cp < 65536 THEN
        <<224 + (cp \div 4096), 128 + ((cp \div 64) % 64), 128 + (cp % 64)>>
    ELSE <<240 + (cp \div 262144), 128 + ((cp \div 4096) % 64),
           128 + ((cp \div 64) % 64), 128 + (cp % 64)>>

\* s.encode('utf-8')
Encode(s) == Flatten([i \in 1..Len(s) |-> Utf8(s[i])])

XhtmlExt == <<".", "x", "h", "t", "m", "l">>

FileNames ==
    { <<"a">> \o XhtmlExt,                       \* a.xhtml
      XhtmlExt,                                  \* .xhtml
      <<"x", "h", "t", "m", "l">>,               \* xhtml
      XhtmlExt \o <<"~">> }                      \* .xhtml~

\* file_name[-6:]
Last6(s) == IF Len(s) <= 6 THEN s ELSE SubSeq(s, Len(s) - 5, Len(s))

WriteDisk(d, name, data) ==
    {f \in d : f.name # name} \cup {[name |-> name, data |-> data]}

\* a write that opens the file before it checks the name
write_open_first(c, file_name, d) ==
    [exc |-> IF Last6(file_name) # XhtmlExt THEN "ValueError" ELSE "none",
     disk |-> WriteDisk(d, file_name,
                        IF Last6(file_name) # XhtmlExt THEN <<>>
                        ELSE Encode(Str(c.content)))]

\* Chapter.write(file_name): [exc, disk]
write(c, file_name, d) ==
    IF Last6(file_name) # XhtmlExt THEN [exc |-> "ValueError", disk |-> d]
    ELSE [exc |-> "none", disk |-> WriteDisk(d, file_name, Encode(Str(c.content)))]

Write ==
    /\ chapter.live
    /\ calls < MaxCalls
    /\ \E file_name \in FileNames :
          LET r == write(chapter, file_name, disk) IN
          /\ disk' = r.disk
          /\ last' = Call("write", r.exc, None, file_name, 0)
    /\ calls' = calls + 1
    /\ UNCHANGED <<chapter, files, imagesDir, nextName>>

(***************************************************************************)
(* save_image called directly on the images directory.                     *)
(***************************************************************************)
ImageNames == {1, 2}

SaveImage ==
    /\ calls < MaxCalls
    /\ \E url \in ImageUrls, name \in ImageNames, sniffOk \in BOOLEAN, getOk \in BOOLEAN :
          LET r == save_image(url, files, imagesDir, name, sniffOk, getOk) IN
          /\ files' = r.files
          /\ last' = Call("save_image", r.exc, r.type, <<url, name>>, 0)
    /\ calls' = calls + 1
    /\ UNCHANGED <<chapter, imagesDir, nextName, disk>>

(***************************************************************************)
(* ChapterGithubGistFactory.process_gist.  The decoded fragment is given   *)
(* by its table rows and by whether it holds a gist-meta div.  A row is    *)
(* [cells, num, code]: cells tells which of the blob-num and blob-code     *)
(* cells the row has, num is the data-line-number label and code the text  *)
(* of the code cell, both sequences of characters.                         *)
(***************************************************************************)
Row(num, code) == [cells |-> "both", num |-> num, code |-> code]
NoNumRow  == [cells |-> "nonum",  num |-> <<>>, code |-> <<"a">>]
NoCodeRow == [cells |-> "nocode", num |-> <<"1">>, code |-> <<>>]

Labels == { <<"9">>, <<"1", "0">>, <<"1", "0", "0">> }
Codes  == { <<"a">>, <<" ", "b">> }

Rows == {Row(n, c) : n \in Labels, c \in Codes} \cup {NoNumRow, NoCodeRow}

Fragments == [rows : SeqsUpTo(Rows, MaxRows), meta : BOOLEAN]

Spaces(n) == [i \in 1..n |-> " "]

\* '{1:>{0}}: {2}'.format(width, line, code)
format_line(width, line, code) ==
    (IF Len(line) < width THEN Spaces(width - Len(line)) ELSE <<>>)
    \o line \o <<":", " ">> \o code

PreOpen  == <<"<pre style=\"font-size: 80%;\">">>
PreClose == <<"</pre>">>

\* the exception the loop over the rows raises, if any
rows_exc(rows) ==
    LET bad == {i \in 1..Len(rows) : rows[i].cells # "both"} IN
    IF bad = {} THEN "none"
    ELSE LET first == CHOOSE i \in bad : \A j \in bad : i <= j IN
         IF rows[first].cells = "nonum" THEN "TypeError" ELSE "AttributeError"

\* a rendering that pads to the length of the last label, not one more
gist_lines_narrow(rows) ==
    LET last_line == IF rows = <<>> THEN <<>> ELSE rows[Len(rows)].num IN
    <<PreOpen>>
    \o [i \in 1..Len(rows) |-> format_line(Len(last_line), rows[i].num, rows[i].code)]
    \o <<PreClose>>

\* the list `gist`: the pre tag, one formatted line per row, the closing tag
gist_lines(rows) ==
    LET last_line == IF rows = <<>> THEN <<>> ELSE rows[Len(rows)].num IN
    <<PreOpen>>
    \o [i \in 1..Len(rows) |-> format_line(Len(last_line) + 1, rows[i].num, rows[i].code)]
    \o <<PreClose>>

\* process_gist(gist_link): [exc, gist]; statusOk: req.raise_for_status() passes
NoGist == [lines |-> <<>>, meta |-> FALSE]

process_gist(statusOk, fragment) ==
    IF ~statusOk THEN [exc |-> "HTTPError", gist |-> NoGist]
    ELSE IF rows_exc(fragment.rows) # "none"
    THEN [exc |-> rows_exc(fragment.rows), gist |-> NoGist]
    ELSE [exc |-> "none",
          gist |-> [lines |-> gist_lines(fragment.rows), meta |-> fragment.meta]]

\* process_gist keeps no state: one call per behaviour shows all it does
ProcessGist ==
    /\ calls = 0
    /\ \E statusOk \in BOOLEAN, fragment \in Fragments :
          LET r == process_gist(statusOk, fragment) IN
          last' = Call("process_gist", r.exc, r.gist, <<statusOk, fragment>>, 0)
    /\ calls' = calls + 1
    /\ UNCHANGED <<chapter, files, imagesDir, nextName, disk>>

(***************************************************************************)
(* The chapter factories.  The raw markup is a sequence of tokens: text,   *)
(* title elements and script elements.                                     *)
(***************************************************************************)
HTok(type, text, hasSrc, src, gist) ==
    [type |-> type, text |-> text, hasSrc |-> hasSrc, src |-> src, gist |-> gist]

HText        == HTok("text", "x", FALSE, None, NoGist)
HTitle(text) == HTok("title", text, FALSE, None, NoGist)   \* <title>text</title>
HScriptNoSrc == HTok("script", "", FALSE, None, NoGist)    \* <script>..</script>
HScript(src) == HTok("script", "", TRUE, src, NoGist)      \* <script src=".."></script>
HPre(gist)   == HTok("pre", "", FALSE, None, gist)         \* the rendered gist

GIST_NETLOC == "gist.github.com"

GistScriptUrl  == "https://gist.github.com/u/1.js"
OtherScriptUrl == "https://cdn.example.com/a.js"

\* urllib.parse.urlparse(url).netloc
netloc(url) ==
    IF url = GistScriptUrl THEN "gist.github.com"
    ELSE IF url = OtherScriptUrl THEN "cdn.example.com"
    ELSE IF url = "http://example.com/page" THEN "example.com"
    ELSE ""

HtmlTokens ==
    {HText, HTitle("Example"), HTitle(""), HScriptNoSrc,
     HScript(GistScriptUrl), HScript(OtherScriptUrl)}

HtmlStrings == SeqsUpTo(HtmlTokens, MaxNodes)

\* what clean_function and clean.html_to_xhtml make of the markup: any
\* string, the empty one included
CleanOutputs == {<<>>, <<Text(233)>>}

DefaultTitle == "Ebook Chapter"

\* root.title, then title_node.string: [exc, string]
title_string(html) ==
    LET idx == {i \in 1..Len(html) : html[i].type = "title"} IN
    IF idx = {} THEN [exc |-> "AttributeError", string |-> None]  \* None.string
    ELSE LET node == html[CHOOSE i \in idx : \A j \in idx : i <= j] IN
         \* Tag.string of an element without children is None
         [exc |-> "none", string |-> IF node.text = "" THEN None ELSE node.text]

\* ChapterFactory.create_chapter_from_string(html_string, url, title):
\* [exc, chapter]; cleaned: the sanitized and converted markup
create_chapter_from_string(html, url, title, cleaned) ==
    LET ts == title_string(html)
        t  == IF title # None THEN title
              ELSE IF ts.exc \in {"IndexError", "AttributeError"} THEN DefaultTitle
              ELSE ts.string
    IN Chapter_init(cleaned, t, url)

(***************************************************************************)
(* The loop of ChapterGithubGistFactory.create_chapter_from_string over    *)
(* the script tags.  Result: [exc, soup, url].                             *)
(***************************************************************************)
RECURSIVE GistLoop(_, _, _, _, _)
GistLoop(done, rest, url, statusOk, fragment) ==
    IF rest = <<>> THEN [exc |-> "none", soup |-> done, url |-> url]
    ELSE LET n == Head(rest) IN
         IF n.type # "script" \/ ~n.hasSrc THEN       \* KeyError: continue
             GistLoop(Append(done, n), Tail(rest), url, statusOk, fragment)
         ELSE IF netloc(n.src) # GIST_NETLOC THEN     \* url = script['src']
             GistLoop(Append(done, n), Tail(rest), n.src, statusOk, fragment)
         ELSE LET g == process_gist(statusOk, fragment) IN
              IF g.exc # "none" THEN [exc |-> g.exc, soup |-> done \o rest, url |-> n.src]
              ELSE GistLoop(Append(done, HPre(g.gist)), Tail(rest), n.src,
                            statusOk, fragment)

\* ChapterGithubGistFactory.create_chapter_from_string: [exc, chapter]
gist_create_chapter_from_string(html, url, title, cleaned, statusOk, fragment) ==
    LET r == GistLoop(<<>>, html, url, statusOk, fragment) IN
    IF r.exc # "none" THEN [exc |-> r.exc, chapter |-> NoChapter]
    ELSE create_chapter_from_string(r.soup, r.url, title, cleaned)

(***************************************************************************)
(* requests.get(url, allow_redirects=False) of the page.                   *)
(***************************************************************************)
PageUrl        == "http://example.com/page"
NoSchemeUrl    == "example.com/page"
FtpUrl         == "ftp://example.com/page"
NoHostUrl      == "http://"

PageUrls == {PageUrl, NoSchemeUrl, FtpUrl, NoHostUrl}

\* the exceptions requests raises for a url, "none" standing for a response
FetchOutcomes(url) ==
    IF url = NoSchemeUrl THEN {"MissingSchema"}
    ELSE IF url = FtpUrl THEN {"InvalidSchema"}
    ELSE IF url = NoHostUrl THEN {"InvalidURL"}
    ELSE {"none", "ConnectionError", "SSLError", "ChunkedEncodingError"}

\* the classes of requests.exceptions an exception is an instance of
Ancestors(exc) ==
    IF exc = "SSLError" THEN {"SSLError", "ConnectionError"}
    ELSE {exc}

\* ChapterFactory.create_chapter_from_url(url, title): [exc, chapter];
\* fetched: the outcome of requests.get; html: the text of the response
create_chapter_from_url(url, title, fetched, html, cleaned) ==
    IF Ancestors(fetched) \cap {"MissingSchema", "ConnectionError"} # {}
    THEN [exc |-> "ValueError", chapter |-> NoChapter]
    ELSE IF "SSLError" \in Ancestors(fetched)
    THEN [exc |-> "ValueError", chapter |-> NoChapter]
    ELSE IF fetched # "none" THEN [exc |-> fetched, chapter |-> NoChapter]
    ELSE create_chapter_from_string(html, url, title, cleaned)

FactoryTitles == {None, "Title"}

\* the factory keeps no state between calls: one call per behaviour
CreateChapterFromString ==
    /\ calls = 0
    /\ \E html \in HtmlStrings, url \in Urls, title \in FactoryTitles,
          cleaned \in CleanOutputs :
          LET r == create_chapter_from_string(html, url, title, cleaned) IN
          /\ chapter' = r.chapter
          /\ last' = Call("create_chapter_from_string", r.exc, None,
                          <<html, url, title, cleaned>>, 0)
    /\ calls' = calls + 1
    /\ UNCHANGED <<files, imagesDir, nextName, disk>>

\* the factory keeps no state between calls: one call per behaviour
GistCreateChapterFromString ==
    /\ calls = 0
    /\ \E html \in HtmlStrings, url \in Urls, title \in FactoryTitles,
          cleaned \in CleanOutputs, statusOk \in BOOLEAN :
          LET fragment == [rows |-> <<Row(<<"9">>, <<"a">>)>>, meta |-> TRUE]
              r == gist_create_chapter_from_string(html, url, title, cleaned,
                                                   statusOk, fragment) IN
          /\ chapter' = r.chapter
          /\ last' = Call("gist_create_chapter_from_string", r.exc, None,
                          <<html, url, title, cleaned>>, 0)
    /\ calls' = calls + 1
    /\ UNCHANGED <<files, imagesDir, nextName, disk>>

\* the factory keeps no state between calls: one call per behaviour
CreateChapterFromUrl ==
    /\ calls = 0
    /\ \E url \in PageUrls, title \in FactoryTitles, html \in HtmlStrings,
          cleaned \in CleanOutputs :
          \E fetched \in FetchOutcomes(url) :
             LET r == create_chapter_from_url(url, title, fetched, html, cleaned) IN
             /\ chapter' = r.chapter
             /\ last' = Call("create_chapter_from_url", r.exc, None,
                             <<html, url, title, cleaned, fetched>>, 0)
    /\ calls' = calls + 1
    /\ UNCHANGED <<files, imagesDir, nextName, disk>>

(***************************************************************************)
(* Specifications                                                          *)
(***************************************************************************)
Init ==
    /\ chapter = NoChapter
    /\ files = {}
    /\ imagesDir \in BOOLEAN
    /\ nextName = 1
    /\ disk = {}
    /\ calls = 0
    /\ last = NoCall

Next == Construct \/ ReplaceImagesInChapter \/ GetUrl

\* the life of one Chapter
Spec == Init /\ [][Next]_vars

NextWrite == Construct \/ ReplaceImagesInChapter \/ Write

\* the life of one Chapter that is written to files
SpecWrite == Init /\ [][NextWrite]_vars

\* calls of save_image on one directory
SpecImage == Init /\ [][SaveImage]_vars

\* calls of process_gist
SpecGist == Init /\ [][ProcessGist]_vars

NextFactory ==
    CreateChapterFromString \/ GistCreateChapterFromString \/ CreateChapterFromUrl

\* calls of the chapter factories
SpecFactory == Init /\ [][NextFactory]_vars

(***************************************************************************)
(* Properties of the Chapter entity and the image resolver.                *)
(***************************************************************************)
NumImgNodes(tree) == Cardinality({i \in 1..Len(tree) : tree[i].type = "img"})

\* C1: a Chapter's title and content are never empty strings, after
\* construction and after any number of image rewrites; constructing a
\* Chapter with an empty title or an empty content fails with ValueError and
\* produces no Chapter.
C1_TitleAndContentNeverEmpty ==
    /\ chapter.live => chapter.title # "" /\ chapter.content # <<>>
    /\ (last.op = "init" /\ last.arg[2] # None
            /\ (last.arg[2] = "" \/ last.arg[1] = <<>>))
       => last.exc = "ValueError" /\ ~chapter.live

\* C2: with an images subdirectory, _replace_images_in_chapter never raises
\* because of an image: the img nodes whose resolution fails are removed, the
\* others are kept, so the number of img nodes decreases by exactly the
\* number of failed resolutions.
C2_RewriteNeverRaises ==
    [][(last'.op = "replace_images" /\ imagesDir)
        => /\ last'.exc = "none"
           /\ NumImgNodes(chapter'.tree) = NumImgNodes(chapter.tree) - last'.failed]_vars

\* the image formats an extension names
ExtFormat(ext) == IF ext \in {"jpg", "jpeg"} THEN "jpeg" ELSE ext

\* the file images/<name>.<ext> exists and holds a complete image of format fmt
HoldsImage(fs, src, fmt) ==
    \E f \in fs : f.name = src.name /\ f.ext = src.ext /\ f.data = fmt /\ fmt # "none"

\* C5: after _replace_images_in_chapter completes, every img node with a src
\* references images/<name>.<ext> and that file holds the image; an image
\* reference that is an existing local file, of any supported format, is
\* copied there with <ext> matching the file's format.
C5_RemainingImagesAreLocalCopies ==
    [][(last'.op = "replace_images" /\ imagesDir)
        => /\ last'.exc = "none"
              => \A i \in 1..Len(chapter'.tree) :
                    IsImageNode(chapter'.tree[i])
                    => /\ chapter'.tree[i].src.name > 0
                       /\ HoldsImage(files', chapter'.tree[i].src, chapter'.tree[i].src.fmt)
           /\ \A i \in 1..Len(chapter.tree) :
                 (IsImageNode(chapter.tree[i]) /\ urljoin(chapter.url, chapter.tree[i].src).local)
                 => /\ last'.exc = "none"
                    /\ \E f \in files' \ files :
                          /\ f.data = chapter.tree[i].src.fmt
                          /\ ExtFormat(f.ext) = chapter.tree[i].src.fmt]_vars

\* C4: save_image either returns the detected type after writing exactly one
\* complete file <image_name>.<type>, or fails with ImageErrorException and
\* leaves no new, empty or partially written file.
C4_SaveImageAllOrNothing ==
    [][last'.op = "save_image"
        => \/ /\ last'.exc = "none"
              /\ files' = WriteFile(files, last'.arg[2], last'.ret, last'.arg[1].fmt)
              /\ last'.arg[1].fmt # "none"
           \/ /\ last'.exc = "ImageErrorException"
              /\ files' = files]_vars

\* C9: get_url returns the exact URL the Chapter was constructed with, and
\* fails with NoUrlError on a Chapter constructed without one; image rewrites
\* never change the url.
C9_GetUrl ==
    [][/\ (last'.op = "init" /\ last'.exc = "none") => chapter'.url = last'.arg[3]
       /\ chapter.live => chapter'.url = chapter.url
       /\ last'.op = "get_url"
          => IF chapter.url = None
             THEN last'.exc = "NoUrlError" /\ last'.ret = None
             ELSE last'.exc = "none" /\ last'.ret = chapter.url]_vars

\* a Chapter without URL whose images were rewritten refuses get_url
C9_Witness ==
    /\ last.op = "get_url"
    /\ last.exc = "NoUrlError"
    /\ nextName > 1
    /\ \E i \in 1..Len(chapter.tree) : chapter.tree[i].src.name > 0

\* file_name ends in '.xhtml'
EndsInXhtml(fn) ==
    /\ Len(fn) >= Len(XhtmlExt)
    /\ \A k \in 1..Len(XhtmlExt) : fn[Len(fn) - Len(XhtmlExt) + k] = XhtmlExt[k]

\* the code points a sequence of UTF-8 bytes stands for
RECURSIVE Decode(_)
Decode(b) ==
    IF b = <<>> THEN <<>>
    ELSE IF b[1] < 128 THEN <<b[1]>> \o Decode(Tail(b))
    ELSE IF b[1] < 224 THEN
        <<(b[1] - 192) * 64 + (b[2] - 128)>> \o Decode(SubSeq(b, 3, Len(b)))
    ELSE IF b[1] < 240 THEN
        <<(b[1] - 224) * 4096 + (b[2] - 128) * 64 + (b[3] - 128)>>
            \o Decode(SubSeq(b, 4, Len(b)))
    ELSE <<(b[1] - 240) * 262144 + (b[2] - 128) * 4096 + (b[3] - 128) * 64 + (b[4] - 128)>>
            \o Decode(SubSeq(b, 5, Len(b)))

WellFormed(fragment) == \A i \in 1..Len(fragment.rows) : fragment.rows[i].cells = "both"

\* line is label right-aligned to width, then a colon, a space and code
IsRendered(line, width, label, code) ==
    LET w == IF Len(label) < width THEN width ELSE Len(label) IN
    /\ Len(line) = w + 2 + Len(code)
    /\ \A k \in 1..(w - Len(label)) : line[k] = " "
    /\ \A k \in 1..Len(label) : line[w - Len(label) + k] = label[k]
    /\ line[w + 1] = ":"
    /\ line[w + 2] = " "
    /\ \A k \in 1..Len(code) : line[w + 2 + k] = code[k]

ExpectedTitle(html) ==
    LET idx == {i \in 1..Len(html) : html[i].type = "title"} IN
    IF idx = {} THEN DefaultTitle
    ELSE LET first == html[CHOOSE i \in idx : \A j \in idx : i <= j] IN
         IF first.text = "" THEN DefaultTitle ELSE first.text

\* C3: the Chapter returned by the gist factory's create_chapter_from_string
\* has exactly the url argument as url, and the supplied or inferred title,
\* whatever script tags the markup contains.
C3_GistFactoryKeepsUrl ==
    (last.op = "gist_create_chapter_from_string" /\ last.exc = "none")
    => /\ chapter.live
       /\ chapter.url = last.arg[2]
       /\ chapter.title = IF last.arg[3] # None THEN last.arg[3]
                          ELSE ExpectedTitle(last.arg[1])

\* C6: create_chapter_from_string without a title never fails because of
\* title extraction: the title is the text of the markup's title element, and
\* the default title when that element is absent, empty or malformed.
C6_TitleInference ==
    (last.op = "create_chapter_from_string" /\ last.arg[3] = None /\ last.arg[4] # <<>>)
    => /\ last.exc = "none"
       /\ chapter.live
       /\ chapter.title = ExpectedTitle(last.arg[1])

\* C7: create_chapter_from_url surfaces every failure of the page fetch as
\* ValueError and returns no Chapter; when the fetch succeeds, the chapter's
\* url is the requested URL.
C7_FetchFailureIsValueError ==
    last.op = "create_chapter_from_url"
    => /\ last.arg[5] # "none" => last.exc = "ValueError" /\ ~chapter.live
       /\ (last.arg[5] = "none" /\ last.exc = "none")
          => chapter.live /\ chapter.url = last.arg[2]

====
